---- MODULE Spec2Model ----
(***************************************************************************)
(* State-machine model of backend/server.js: the account store (register,  *)
(* login, forgot-password, change-password) and the review workflow        *)
(* (upload, upload-text, listings, flag, delete, notifications).           *)
(*                                                                         *)
(* JavaScript strings are sequences of one-character strings, so that the  *)
(* password regular expression, trim/toLowerCase and the notification      *)
(* template are computed rather than assumed.  The JavaScript values null  *)
(* and undefined are two sentinel sequences that no text equals.           *)
(***************************************************************************)
EXTENDS Naturals, Sequences, FiniteSets, Bags

VARIABLES users, reg, assignments, notifications, nextId, flg, last

vars == <<users, reg, assignments, notifications, nextId, flg, last>>

-----------------------------------------------------------------------------
(* JavaScript values *)

Null == <<"#null">>

Undefined == <<"#undefined">>

IsString(v) == v # Null /\ v # Undefined

\* String(v): what a template literal or RegExp.test makes of a value.
JsString(v) == IF v = Null THEN <<"n","u","l","l">> ELSE IF v = Undefined THEN <<"u","n","d","e","f","i","n","e","d">> ELSE v

\* JavaScript truthiness of a string-or-nullish value: if (text), if (subject).
Truthy(v) == IsString(v) /\ v # <<>>

UpperSeq == <<"A","B","C","D","E","F","G","H","I","J","K","L","M","N","O","P","Q","R","S","T","U","V","W","X","Y","Z">>

LowerSeq == <<"a","b","c","d","e","f","g","h","i","j","k","l","m","n","o","p","q","r","s","t","u","v","w","x","y","z">>

UpperChars == { UpperSeq[i] : i \in 1..Len(UpperSeq) }

LowerChars == { LowerSeq[i] : i \in 1..Len(LowerSeq) }

DigitChars == {"0","1","2","3","4","5","6","7","8","9"}

SymbolChars == {"!","@","#","$","%","^","&","*","(",")"}

WhiteChars == {" "}

HasChar(s, class) == \E i \in 1..Len(s) : s[i] \in class

LowerChar(c) == IF c \in UpperChars
                THEN LowerSeq[CHOOSE i \in 1..Len(UpperSeq) : UpperSeq[i] = c]
                ELSE c

\* String.prototype.toLowerCase
toLowerCase(s) == [i \in 1..Len(s) |-> LowerChar(s[i])]

RECURSIVE trimStart(_)
trimStart(s) == IF s # <<>> /\ Head(s) \in WhiteChars THEN trimStart(Tail(s)) ELSE s

RECURSIVE trimEnd(_)
trimEnd(s) == IF s # <<>> /\ s[Len(s)] \in WhiteChars
              THEN trimEnd(SubSeq(s, 1, Len(s) - 1)) ELSE s

\* String.prototype.trim
trim(s) == trimEnd(trimStart(s))

\* s contains t as a contiguous substring (String.prototype.includes).
Contains(s, t) == \E i \in 0..(Len(s) - Len(t)) : SubSeq(s, i + 1, i + Len(t)) = t

-----------------------------------------------------------------------------
(* Password policy *)

MinPasswordLen == 8

\* /^(?=.*[A-Z])(?=.*\d)(?=.*[!@#$%^&*()])[A-Za-z\d!@#$%^&*()]{8,}$/.test(password)
validatePassword(password) ==
    LET s == JsString(password) IN
    /\ HasChar(s, UpperChars)
    /\ HasChar(s, DigitChars)
    /\ HasChar(s, SymbolChars)
    /\ \A i \in 1..Len(s) : s[i] \in UpperChars \cup LowerChars \cup DigitChars \cup SymbolChars
    /\ Len(s) >= MinPasswordLen

-----------------------------------------------------------------------------
(* Bounds and the input values the requests are drawn from *)

MaxInflight == 2

MaxAssignments == 2

MaxNotifications == 2

EmailLower == <<"a","@","x">>

EmailMixed == <<"A","@","x">>

EmailPadded == <<" ","a","@","x">>

EmailInputs == {EmailLower, EmailMixed}

ForgotInputs == EmailInputs \cup {EmailPadded, Undefined}

WeakPassword == <<"a","b","c">>

StrongPassword == <<"A","b","c","1","2","3","4","5","!">>

TempA == <<"k","3","x","9","q","2","a","b">>

TempB == <<"z","7","m","1","p","0","c","d">>

\* Values Math.random().toString(36).slice(-8) can produce.
TempPasswords == {TempA, TempB}

PasswordInputs == {WeakPassword, StrongPassword, TempA, TempB, Null, Undefined}

NewPasswordInputs == {StrongPassword, TempA, Null}

RegisterPasswords == {WeakPassword, StrongPassword, Null}

RoleEnum == {"student", "teacher", "admin"}

\* req.headers.role / req.body.role when the field is absent.
NoRole == "#undefined"

RoleInputs == {"student", "teacher", NoRole}

MailOutcomes == {"sent", "failed"}

-----------------------------------------------------------------------------
(* Responses: the outcome of the most recent handler step.  outcome is     *)
(* "sent" (res.json / res.status().json ran), "threw" (the async handler   *)
(* rejected and nothing was sent) or "pending" (the handler is suspended   *)
(* at an await).                                                           *)

Resp(op, status, msg, req, data) ==
    [op |-> op, outcome |-> "sent", status |-> status, msg |-> msg, req |-> req, data |-> data]

Threw(op, msg, req) ==
    [op |-> op, outcome |-> "threw", status |-> 0, msg |-> msg, req |-> req, data |-> <<>>]

Pending(op, req) ==
    [op |-> op, outcome |-> "pending", status |-> 0, msg |-> "", req |-> req, data |-> <<>>]

NoRequest == [op |-> "", outcome |-> "", status |-> 0, msg |-> "", req |-> [none |-> TRUE], data |-> <<>>]

-----------------------------------------------------------------------------
(* Account store *)

HasUser(us, email) == \E u \in us : u.email = email

\* User.findOne({ email }): the first matching document.
FindUser(us, email) ==
    CHOOSE u \in us : u.email = email /\ \A v \in us : v.email = email => u._id <= v._id

\* new User({ email, password, role }): tempPassword takes its default.
NewUser(us, email, password, role) ==
    [_id |-> Cardinality(us) + 1, email |-> email, password |-> password,
     role |-> role, tempPassword |-> Null]

\* Schema validation run by save(): required strings and the role enum.
ValidUser(doc) ==
    /\ Truthy(doc.email)
    /\ Truthy(doc.password)
    /\ doc.role \in RoleEnum

\* A store whose email index is missing: every insert is accepted.
UniqueEmailIndex_Absent(us, doc) == TRUE

\* email: { unique: true }: the index rejects a second document with the email.
UniqueEmailIndex(us, doc) == \A u \in us : u._id # doc._id => u.email # doc.email

\* doc.save() of a document read from the store: replaces it by _id.
SaveUser(us, doc) == { u \in us : u._id # doc._id } \cup {doc}

\* Handlers registered for POST /register, in registration order.
RegisterRoute ==
    << [handler |-> "register@90", validates |-> FALSE, callsNext |-> FALSE],
       [handler |-> "register@267", validates |-> TRUE, callsNext |-> FALSE] >>

\* Express runs the first handler of a route; a later one runs only if every
\* earlier one called next().
Serving(route) ==
    route[CHOOSE i \in 1..Len(route) :
            ~route[i].callsNext /\ \A j \in 1..(i - 1) : route[j].callsNext]

\* The part of a register handler up to its await User.findOne: the response
\* it sends there, or "pending" when it goes on to save.
RegisterLookupResult(us, req) ==
    IF Serving(RegisterRoute).validates /\ ~validatePassword(req.password)
    THEN Resp("register", 400, "Password must be at least 8 characters long", req, <<>>)
    ELSE IF HasUser(us, req.email)
    THEN Resp("register", 400, "User already exists", req, <<>>)
    ELSE Pending("register", req)

\* The part after the lookup: new User(...).save().
RegisterSaveResult(us, req) ==
    LET doc == NewUser(us, req.email, req.password, req.role) IN
    IF ~ValidUser(doc) THEN Threw("register", "ValidationError", req)
    ELSE IF ~UniqueEmailIndex(us, doc) THEN Threw("register", "E11000 duplicate key", req)
    ELSE Resp("register", 201, "Registration successful", req, <<>>)

RegisterSaveUsers(us, req) ==
    IF RegisterSaveResult(us, req).status = 201
    THEN us \cup {NewUser(us, req.email, req.password, req.role)}
    ELSE us

\* POST /login
LoginResult(us, req) ==
    IF ~HasUser(us, req.email)
    THEN Resp("login", 400, "User not found", req, <<>>)
    ELSE LET user == FindUser(us, req.email) IN
         IF user.password # req.password /\ user.tempPassword # req.password
         THEN Resp("login", 400, "Invalid credentials", req, <<>>)
         ELSE IF user.role # req.role
         THEN Resp("login", 400, "Invalid role", req, <<>>)
         ELSE Resp("login", 200, "", req, <<[email |-> user.email, role |-> user.role]>>)

\* POST /forgot-password
ForgotResult(us, req) ==
    IF ~IsString(req.email) THEN Threw("forgot-password", "TypeError", req)
    ELSE IF ~HasUser(us, toLowerCase(trim(req.email)))
    THEN Resp("forgot-password", 400, "User not found", req, <<>>)
    ELSE IF req.mail = "failed"
    THEN Resp("forgot-password", 500, "Failed to send email", req, <<>>)
    ELSE Resp("forgot-password", 200, "Temporary password sent to your email", req, <<>>)

ForgotUsers(us, req) ==
    IF IsString(req.email) /\ HasUser(us, toLowerCase(trim(req.email)))
    THEN LET user == FindUser(us, toLowerCase(trim(req.email))) IN
         SaveUser(us, [user EXCEPT !.tempPassword = req.temp])
    ELSE us

\* POST /change-password
ChangeResult(us, req) ==
    IF ~HasUser(us, req.email)
    THEN Resp("change-password", 400, "User not found", req, <<>>)
    ELSE LET user == FindUser(us, req.email) IN
         IF req.newPassword # req.confirmPassword
         THEN Resp("change-password", 400, "New passwords do not match", req, <<>>)
         ELSE IF user.password # req.password /\ user.tempPassword # req.password
         THEN Resp("change-password", 400, "Invalid old password", req, <<>>)
         ELSE IF ~ValidUser([user EXCEPT !.password = req.newPassword, !.tempPassword = Null])
         THEN Threw("change-password", "ValidationError", req)
         ELSE Resp("change-password", 200, "Password changed successfully", req, <<>>)

\* A change-password that overwrites the password and keeps the temporary one.
ChangeUsers_KeepsTemp(us, req) ==
    IF ChangeResult(us, req).status = 200
    THEN LET user == FindUser(us, req.email) IN
         SaveUser(us, [user EXCEPT !.password = req.newPassword])
    ELSE us

ChangeUsers(us, req) ==
    IF ChangeResult(us, req).status = 200
    THEN LET user == FindUser(us, req.email) IN
         SaveUser(us, [user EXCEPT !.password = req.newPassword, !.tempPassword = Null])
    ELSE us

-----------------------------------------------------------------------------
(* Submission and notification stores *)

SubjectMath == <<"m","a","t","h">>

SubjectInputs == {SubjectMath, Undefined}

FileName == <<"h","w",".","p","d","f">>

FileInputs == {FileName, Undefined}

TextBody == <<"2","+","2","=","4">>

TextInputs == {TextBody, <<>>, Undefined}

FeedbackBad == <<"c","o","p","i","e","d">>

FeedbackOk == <<"f","i","n","e">>

FeedbackInputs == {FeedbackBad, FeedbackOk}

FraudScoreInputs == {80}

\* An id that does not parse as an ObjectId.
MalformedId == 0

IdInputs == 0..MaxAssignments

\* The paths of AssignmentSchema with their defaults; a path without a
\* default is absent (undefined) until set.
AssignmentDefaults(t) ==
    [email |-> Undefined, filename |-> Undefined, uploadTime |-> t, status |-> "submitted",
     fraudScore |-> 0, feedback |-> <<>>, subject |-> Undefined]

AssignmentPaths == DOMAIN AssignmentDefaults(0)

\* new Assignment(obj): strict schema, so fields of obj that are no schema
\* path are dropped.  uploadTime is Date.now at construction; the code only
\* ever compares the timestamps of one collection (sort), so t is the
\* document's creation rank within its collection.
NewAssignment(obj, id, t) ==
    [p \in AssignmentPaths \cup {"_id"} |->
        IF p = "_id" THEN id
        ELSE IF p \in DOMAIN obj THEN obj[p]
        ELSE AssignmentDefaults(t)[p]]

\* Schema validation run by save(): email and subject are required.
ValidAssignment(doc) == Truthy(doc.email) /\ Truthy(doc.subject)

HasAssignment(as, id) == \E a \in as : a._id = id

FindAssignment(as, id) == CHOOSE a \in as : a._id = id

\* Documents of a set as a sequence, largest key first: .sort({ key: -1 }).
RECURSIVE SortDesc(_, _)
SortDesc(docs, key) ==
    IF docs = {} THEN <<>>
    ELSE LET top == CHOOSE d \in docs : \A e \in docs : e[key] <= d[key]
         IN <<top>> \o SortDesc(docs \ {top}, key)

\* Assignment.find(query).sort({ uploadTime: -1 }) for GET /assignments.
AssignmentsOf(as, email, subject) ==
    SortDesc({ a \in as : a.email = email /\ (Truthy(subject) => a.subject = subject) },
             "uploadTime")

\* Assignment.find(query).sort({ uploadTime: -1 }) for GET /all-assignments.
AllAssignments(as, subject) ==
    SortDesc({ a \in as : Truthy(subject) => a.subject = subject }, "uploadTime")

\* Notification.find({ email }).sort({ timestamp: -1 })
NotificationsOf(ns, email) ==
    SortDesc({ ns[i] : i \in { j \in 1..Len(ns) : ns[j].email = email } }, "timestamp")

\* A gate that lets a request without a role header through.
CheckRole_AbsentPasses(expected, hdr) == hdr = expected \/ hdr = NoRole

\* checkRole(role): the role header must equal the expected role.
CheckRole(expected, hdr) == hdr = expected

MsgHead == <<"Y","o","u","r"," ","a","s","s","i","g","n","m","e","n","t"," ","\"">>

MsgMid == <<"\""," ","h","a","s"," ","b","e","e","n"," ","f","l","a","g","g","e","d","."," ","F","e","e","d","b","a","c","k",":"," ">>

\* `Your assignment "${assignment.filename}" has been flagged. Feedback: ${feedback}`
FlagMessage(assignment, feedback) ==
    MsgHead \o JsString(assignment.filename) \o MsgMid \o JsString(feedback)

\* An update whose filter is missing: every stored document is flagged.
FlagAssignments_All(as, id, fraudScore, feedback) ==
    { [a EXCEPT !.status = "flagged", !.fraudScore = fraudScore, !.feedback = feedback] : a \in as }

\* findByIdAndUpdate(id, { status: "flagged", fraudScore, feedback }, { new: true }):
\* the stored documents after the update.
FlagAssignments(as, id, fraudScore, feedback) ==
    { IF a._id = id
      THEN [a EXCEPT !.status = "flagged", !.fraudScore = fraudScore, !.feedback = feedback]
      ELSE a : a \in as }

\* new Notification({ email, message }) for a flagged assignment.
NewNotification(assignment, feedback, t) ==
    [email |-> assignment.email, message |-> FlagMessage(assignment, feedback), timestamp |-> t]

\* A handler that notifies without waiting for its update: the request is
\* queued with the document as it was before the update.
FlagPending_BeforeUpdate(as, req) == [req |-> req, assignment |-> FindAssignment(as, req.id)]

\* What the handler holds across await notification.save(): the request and
\* the updated document findByIdAndUpdate returned ({ new: true }).
FlagPending(as, req) ==
    [req |-> req,
     assignment |-> FindAssignment(FlagAssignments(as, req.id, req.fraudScore, req.feedback), req.id)]

-----------------------------------------------------------------------------
(* Initial state: the process has started and the three collections are    *)
(* empty; no request is in flight.                                         *)

Init ==
    /\ users = {}
    /\ reg = EmptyBag
    /\ assignments = {}
    /\ notifications = <<>>
    /\ nextId = 1
    /\ flg = EmptyBag
    /\ last = NoRequest

reviewVars == <<assignments, notifications, nextId, flg>>

-----------------------------------------------------------------------------
(* POST /register.  The handler awaits the store twice (findOne, save), so *)
(* requests interleave between the two.                                    *)

\* The handler up to and including await User.findOne({ email }).
RegisterLookup(email, password, role) ==
    LET req == [email |-> email, password |-> password, role |-> role]
        r == RegisterLookupResult(users, req) IN
    /\ BagCardinality(reg) < MaxInflight
    /\ last' = r
    /\ reg' = IF r.outcome = "pending" THEN reg (+) SetToBag({req}) ELSE reg
    /\ UNCHANGED <<users, reviewVars>>

\* The rest of the handler: await newUser.save() and the 201 response.
RegisterSave(req) ==
    /\ BagIn(req, reg)
    /\ last' = RegisterSaveResult(users, req)
    /\ users' = RegisterSaveUsers(users, req)
    /\ reg' = reg (-) SetToBag({req})
    /\ UNCHANGED reviewVars

\* A register request served with no other request in between.
Register(email, password, role) ==
    LET req == [email |-> email, password |-> password, role |-> role]
        r == RegisterLookupResult(users, req) IN
    /\ last' = IF r.outcome = "pending" THEN RegisterSaveResult(users, req) ELSE r
    /\ users' = IF r.outcome = "pending" THEN RegisterSaveUsers(users, req) ELSE users
    /\ UNCHANGED <<reg, reviewVars>>

\* POST /login
Login(email, password, role) ==
    /\ last' = LoginResult(users, [email |-> email, password |-> password, role |-> role])
    /\ UNCHANGED <<users, reg, reviewVars>>

\* POST /forgot-password
ForgotPassword(email, temp, mail) ==
    LET req == [email |-> email, temp |-> temp, mail |-> mail] IN
    /\ last' = ForgotResult(users, req)
    /\ users' = ForgotUsers(users, req)
    /\ UNCHANGED <<reg, reviewVars>>

\* POST /change-password
ChangePassword(email, oldPassword, newPassword, confirmPassword) ==
    LET req == [email |-> email, password |-> oldPassword, newPassword |-> newPassword,
                confirmPassword |-> confirmPassword] IN
    /\ last' = ChangeResult(users, req)
    /\ users' = ChangeUsers(users, req)
    /\ UNCHANGED <<reg, reviewVars>>

-----------------------------------------------------------------------------
(* Submissions, review and notifications *)

\* POST /upload
Upload(email, subject, file) ==
    LET req == [email |-> email, subject |-> subject, file |-> file]
        doc == NewAssignment([email |-> email, filename |-> file, subject |-> subject],
                             nextId, nextId) IN
    /\ nextId <= MaxAssignments
    /\ IF file = Undefined
       THEN /\ last' = Resp("upload", 400, "No file uploaded", req, <<>>)
            /\ UNCHANGED <<assignments, nextId>>
       ELSE IF ~ValidAssignment(doc)
       THEN /\ last' = Threw("upload", "ValidationError", req)
            /\ UNCHANGED <<assignments, nextId>>
       ELSE /\ last' = Resp("upload", 200, "Assignment uploaded successfully", req, <<>>)
            /\ assignments' = assignments \cup {doc}
            /\ nextId' = nextId + 1
    /\ UNCHANGED <<users, reg, notifications, flg>>

\* POST /upload-text
UploadText(email, subject, text) ==
    LET req == [email |-> email, subject |-> subject, text |-> text]
        doc == NewAssignment([email |-> email, text |-> text, subject |-> subject],
                             nextId, nextId) IN
    /\ nextId <= MaxAssignments
    /\ IF ~Truthy(text)
       THEN /\ last' = Resp("upload-text", 400, "Assignment text is required", req, <<>>)
            /\ UNCHANGED <<assignments, nextId>>
       ELSE IF ~ValidAssignment(doc)
       THEN /\ last' = Threw("upload-text", "ValidationError", req)
            /\ UNCHANGED <<assignments, nextId>>
       ELSE /\ last' = Resp("upload-text", 200, "Text assignment posted successfully", req, <<>>)
            /\ assignments' = assignments \cup {doc}
            /\ nextId' = nextId + 1
    /\ UNCHANGED <<users, reg, notifications, flg>>

\* GET /assignments
ListForStudent(email, subject) ==
    /\ last' = Resp("assignments", 200, "", [email |-> email, subject |-> subject],
                    AssignmentsOf(assignments, email, subject))
    /\ UNCHANGED <<users, reg, reviewVars>>

\* GET /all-assignments
ListAll(hdr, subject) ==
    LET req == [role |-> hdr, subject |-> subject] IN
    /\ last' = IF ~CheckRole("teacher", hdr)
               THEN Resp("all-assignments", 403, "Access denied", req, <<>>)
               ELSE Resp("all-assignments", 200, "", req, AllAssignments(assignments, subject))
    /\ UNCHANGED <<users, reg, reviewVars>>

\* POST /flag-assignment/:id up to and including await findByIdAndUpdate, and
\* the construction of the notification from its result.
FlagUpdate(hdr, id, fraudScore, feedback) ==
    LET req == [role |-> hdr, id |-> id, fraudScore |-> fraudScore, feedback |-> feedback]
        updated == FlagAssignments(assignments, id, fraudScore, feedback) IN
    /\ Len(notifications) + BagCardinality(flg) < MaxNotifications
    /\ BagCardinality(flg) < MaxInflight
    /\ IF ~CheckRole("teacher", hdr)
       THEN /\ last' = Resp("flag", 403, "Access denied", req, <<>>)
            /\ UNCHANGED <<assignments, flg>>
       ELSE IF id = MalformedId
       THEN /\ last' = Threw("flag", "CastError", req)
            /\ UNCHANGED <<assignments, flg>>
       ELSE IF ~HasAssignment(assignments, id)
       THEN /\ last' = Threw("flag", "TypeError", req)
            /\ UNCHANGED <<assignments, flg>>
       ELSE /\ last' = Pending("flag", req)
            /\ assignments' = updated
            /\ flg' = flg (+) SetToBag({FlagPending(assignments, req)})
    /\ UNCHANGED <<users, reg, notifications, nextId>>

\* The rest of the flag handler: await notification.save() and the response.
FlagNotify(p) ==
    /\ BagIn(p, flg)
    /\ notifications' = Append(notifications, NewNotification(p.assignment, p.req.feedback,
                                                          Len(notifications) + 1))
    /\ flg' = flg (-) SetToBag({p})
    /\ last' = Resp("flag", 200, "Assignment flagged", p.req, <<p.assignment>>)
    /\ UNCHANGED <<users, reg, assignments, nextId>>

\* GET /notifications
ListNotifications(email) ==
    /\ last' = Resp("notifications", 200, "", [email |-> email],
                    NotificationsOf(notifications, email))
    /\ UNCHANGED <<users, reg, reviewVars>>

\* DELETE /assignments/:id
DeleteAssignment(id) ==
    LET req == [id |-> id] IN
    /\ IF id = MalformedId
       THEN /\ last' = Resp("delete", 500, "Failed to delete assignment", req, <<>>)
            /\ UNCHANGED assignments
       ELSE IF ~HasAssignment(assignments, id)
       THEN /\ last' = Resp("delete", 404, "Assignment not found", req, <<>>)
            /\ UNCHANGED assignments
       ELSE /\ last' = Resp("delete", 200, "Assignment deleted successfully", req, <<>>)
            /\ assignments' = { a \in assignments : a._id # id }
    /\ UNCHANGED <<users, reg, notifications, nextId, flg>>

-----------------------------------------------------------------------------
(* Specifications *)

\* Concurrent registration.
NextRegister ==
    \/ \E e \in EmailInputs, p \in RegisterPasswords, r \in RoleInputs : RegisterLookup(e, p, r)
    \/ \E q \in BagToSet(reg) : RegisterSave(q)

SpecRegister == Init /\ [][NextRegister]_vars

\* The account operations, one request at a time.
NextAccounts ==
    \/ \E e \in EmailInputs, p \in RegisterPasswords, r \in RoleInputs : Register(e, p, r)
    \/ \E e \in EmailInputs, p \in PasswordInputs, r \in RoleInputs : Login(e, p, r)
    \/ \E e \in ForgotInputs, t \in TempPasswords, m \in MailOutcomes : ForgotPassword(e, t, m)
    \/ \E e \in EmailInputs, o \in PasswordInputs, n \in NewPasswordInputs, c \in NewPasswordInputs :
          ChangePassword(e, o, n, c)

SpecAccounts == Init /\ [][NextAccounts]_vars

\* Creating, listing and deleting submissions.
NextSubmit ==
    \/ \E e \in EmailInputs, s \in SubjectInputs, f \in FileInputs : Upload(e, s, f)
    \/ \E e \in EmailInputs, s \in SubjectInputs, t \in TextInputs : UploadText(e, s, t)
    \/ \E e \in EmailInputs, s \in SubjectInputs : ListForStudent(e, s)
    \/ \E h \in RoleInputs, s \in SubjectInputs : ListAll(h, s)
    \/ \E i \in IdInputs : DeleteAssignment(i)

SpecSubmit == Init /\ [][NextSubmit]_vars

\* The review workflow on uploaded files; flag requests interleave with each
\* other and with uploads and deletions.
NextReview ==
    \/ \E e \in EmailInputs, s \in SubjectInputs, f \in FileInputs : Upload(e, s, f)
    \/ \E h \in RoleInputs, s \in SubjectInputs : ListAll(h, s)
    \/ \E h \in RoleInputs, i \in IdInputs, n \in FraudScoreInputs, f \in FeedbackInputs :
          FlagUpdate(h, i, n, f)
    \/ \E p \in BagToSet(flg) : FlagNotify(p)
    \/ \E e \in EmailInputs : ListNotifications(e)
    \/ \E i \in IdInputs : DeleteAssignment(i)

SpecReview == Init /\ [][NextReview]_vars

Next == NextRegister \/ NextAccounts \/ NextSubmit \/ NextReview

Spec == Init /\ [][Next]_vars

-----------------------------------------------------------------------------
(* Properties *)

LoginStatus(us, email, password, role) ==
    LoginResult(us, [email |-> email, password |-> password, role |-> role]).status

UserById(us, id) == CHOOSE u \in us : u._id = id

\* C1: the answer to a register request whose password fails the policy is
\* status 400, and no account is created for it, so every stored account
\* holds a policy-satisfying password (under SpecRegister passwords are only
\* ever set by registration).
C1_RegisterEnforcesPolicy ==
    /\ (last.op = "register" /\ last.outcome = "sent" /\ ~validatePassword(last.req.password))
          => last.status = 400
    /\ \A u \in users : validatePassword(u.password)

\* C2: a login answered with success supplied either the account's stored
\* password or a temporary password that is set on the account.
C2_LoginOnlyWithCredential ==
    (last.op = "login" /\ last.status = 200)
       => LET user == FindUser(users, last.req.email) IN
          \/ last.req.password = user.password
          \/ (user.tempPassword # Null /\ last.req.password = user.tempPassword)

\* C4: a flag request with role teacher whose id matches no stored
\* submission is answered, with status 404.
C4_FlagMissingIdAnswered ==
    (/\ last.op = "flag"
     /\ last.req.role = "teacher"
     /\ last.outcome # "pending"
     /\ last.status # 200
     /\ last.req.id # MalformedId
     /\ ~HasAssignment(assignments, last.req.id))
       => (last.outcome = "sent" /\ last.status = 404)

\* C6: after a successful upload-text the submission just created, as the
\* listing returns it, holds the supplied text.
C6_TextStored ==
    (last.op = "upload-text" /\ last.status = 200)
       => LET listed == AllAssignments(assignments, Undefined) IN
          \E i \in 1..Len(listed) :
             /\ listed[i]._id = nextId - 1
             /\ "text" \in DOMAIN listed[i]
             /\ listed[i].text = last.req.text

\* C9: forgot-password answers "User not found" only when no account is
\* registered under the supplied email; when one is, the temporary password
\* is stored on that account, on no other, and then authenticates its login.
C9_ForgotFindsRegisteredAccount ==
    [][ (last'.op = "forgot-password" /\ IsString(last'.req.email))
          => LET e == last'.req.email IN
             /\ last'.status = 400 => ~HasUser(users, e)
             /\ HasUser(users, e)
                  => /\ FindUser(users', e).tempPassword = last'.req.temp
                     /\ \A u \in users : u.email # e => u \in users'
                     /\ LoginStatus(users', e, last'.req.temp, FindUser(users, e).role) = 200
      ]_vars

\* C3 as stated: a change-password that succeeds on an account with an
\* active temporary password T leaves an account that a login supplying T
\* (with the account's role) does not authenticate, whatever the new password.
C3_TempRejectedAfterChange ==
    [][ \A u \in users :
          (/\ last'.op = "change-password"
           /\ last'.status = 200
           /\ last'.req.email = u.email
           /\ u.tempPassword # Null)
             => LoginStatus(users', u.email, u.tempPassword, u.role) # 200
      ]_vars

\* C3 as amended: a successful change-password clears the temporary
\* password; a cleared temporary password stays cleared until
\* forgot-password sets a new one; and while it is cleared a login supplying
\* a temporary-password value succeeds only if that value is the account's
\* stored password.
C3_ChangeClearsTemp ==
    [][ \A u \in users :
          LET v == UserById(users', u._id) IN
          /\ (/\ last'.op = "change-password"
              /\ last'.status = 200
              /\ last'.req.email = u.email
              /\ u.tempPassword # Null)
                => /\ v.tempPassword = Null
                   /\ v.password # u.tempPassword
                        => LoginStatus(users', u.email, u.tempPassword, u.role) # 200
          /\ (u.tempPassword = Null /\ v.tempPassword # Null)
                => last'.op = "forgot-password"
          /\ v.tempPassword = Null
                => \A t \in TempPasswords :
                      v.password # t => LoginStatus(users', v.email, t, v.role) # 200
      ]_vars

\* C3 witness: change-password has just succeeded with the temporary
\* password as the old password, the temporary password is cleared, and a
\* login with it is now refused.
C3_Witness ==
    /\ last.op = "change-password"
    /\ last.status = 200
    /\ last.req.password = TempB
    /\ LET user == FindUser(users, last.req.email) IN
       /\ user.tempPassword = Null
       /\ user.password # TempB
       /\ LoginStatus(users, user.email, TempB, user.role) = 400

\* C5: the update step of a flag request sets status, fraud score and
\* feedback of the submission with the given id to "flagged" and the supplied
\* values, keeps its other fields, changes no other submission and no
\* notification; the notify step appends exactly one notification, addressed
\* to the owning email, whose message contains the supplied feedback, and
\* changes no submission and no earlier notification.
C5_FlagEffect ==
    [][ /\ (last'.op = "flag" /\ last'.outcome = "pending")
             => LET r == last'.req
                    before == FindAssignment(assignments, r.id)
                    after == FindAssignment(assignments', r.id) IN
                /\ HasAssignment(assignments, r.id)
                /\ after = [before EXCEPT !.status = "flagged", !.fraudScore = r.fraudScore,
                                          !.feedback = r.feedback]
                /\ assignments' \ {after} = assignments \ {before}
                /\ BagIn([req |-> r, assignment |-> after], flg')
                /\ notifications' = notifications
        /\ (last'.op = "flag" /\ last'.status = 200)
             => LET n == Len(notifications) IN
                /\ Len(notifications') = n + 1
                /\ SubSeq(notifications', 1, n) = notifications
                /\ notifications'[n + 1].email = last'.data[1].email
                /\ last'.data[1]._id = last'.req.id
                /\ Contains(notifications'[n + 1].message, last'.req.feedback)
                /\ assignments' = assignments
      ]_vars

\* C5 witness: a flag request has been answered with success while another
\* submission, still "submitted", is stored beside the flagged one.
C5_Witness ==
    /\ last.op = "flag"
    /\ last.status = 200
    /\ Len(notifications) = 1
    /\ Contains(notifications[1].message, last.req.feedback)
    /\ \E a, b \in assignments :
          /\ a._id = last.req.id
          /\ a.status = "flagged"
          /\ b._id # a._id
          /\ b.status = "submitted"
          /\ b.email # a.email
          /\ notifications[1].email = a.email

\* C7: a list-all or flag request whose role header is not "teacher" is
\* answered 403 with no submission data and changes no store and no request
\* in flight.
C7_RoleGate ==
    [][ (last'.op \in {"all-assignments", "flag"} /\ last'.req.role # "teacher")
          => /\ last'.outcome = "sent"
             /\ last'.status = 403
             /\ last'.data = <<>>
             /\ UNCHANGED <<users, assignments, notifications, flg>>
      ]_vars

\* C7 witness: a flag request without a role header, naming a stored
\* submission, has been refused.
C7_Witness ==
    /\ last.op = "flag"
    /\ last.status = 403
    /\ last.req.role = NoRole
    /\ HasAssignment(assignments, last.req.id)
    /\ FindAssignment(assignments, last.req.id).status = "submitted"

C10_NotifyAfterOwnUpdate ==
    [][ /\ \A p \in BagToSet(flg') :
             CopiesIn(p, flg') > CopiesIn(p, flg)
                => /\ p.assignment.feedback = p.req.feedback
                   /\ p.assignment.status = "flagged"
                   /\ p.assignment \in assignments'
        /\ Len(notifications') > Len(notifications)
             => \E p \in BagToSet(flg) :
                   /\ flg' = flg (-) SetToBag({p})
                   /\ notifications'[Len(notifications')].message
                         = FlagMessage(p.assignment, p.req.feedback)
      ]_vars

\* C10 witness: the notification created last carries the feedback of a
\* request whose update has been overwritten: the stored submission holds
\* another feedback.
C10_StaleNotification ==
    /\ last.op = "flag"
    /\ last.status = 200
    /\ notifications # <<>>
    /\ \E a \in assignments :
          /\ a._id = last.req.id
          /\ a.feedback # last.req.feedback
          /\ Contains(notifications[Len(notifications)].message, last.req.feedback)
          /\ ~Contains(notifications[Len(notifications)].message, a.feedback)

====
